---- MODULE Spec2Model ----
(***************************************************************************)
(* Capital.com trading bot: app/bot.py, app/capital_client.py, app/main.py *)
(* and app/config.py as a state machine.                                   *)
(*                                                                         *)
(* Numbers.  Quotes are Python floats.  A price payload carries a field    *)
(* base: with base = 0 a quote q is the float q itself (small magnitudes,  *)
(* where every sum and mean the bot takes is far from a rounding tie, so   *)
(* exact rationals [n, d] = n/d compare as the floats do); with base = 1   *)
(* a quote q (q even) is the float 2^53 + q, the binade in which doubles   *)
(* are 2 apart, and sums and means are rounded to nearest, ties to even,   *)
(* as IEEE 754 doubles and statistics.mean round them.                     *)
(*                                                                         *)
(* An absent value (Python None, a missing dict key) is the empty tuple,   *)
(* a present value v the 1-tuple <<v>>.                                    *)
(***************************************************************************)
EXTENDS Integers, Sequences, FiniteSets, TLC

VARIABLES
    pc,          \* where the run stands
    trade_size,  \* args.size
    dry_run,     \* config.dry_run
    session,     \* the CapitalSession of create_session
    prices,      \* the price payload
    mids,        \* the list _extract_mid_prices returns
    decision,    \* the TradeDecision of decide_trade
    result,      \* the dict execute_trade returns and main prints
    raised,      \* the exception that ended the run, "" if none
    wire         \* the HTTP exchanges made so far, in order

vars == <<pc, trade_size, dry_run, session, prices, mids, decision, result,
          raised, wire>>

----------------------------------------------------------------------------
(* Bounds of the model *)

\* longest candle list given to _extract_mid_prices on its own
MaxCandles == 2
\* longest run of equal candles in a payload given to decide_trade
MaxRun == 9
\* number of distinct price levels of a monotone payload
MaxLevel == 7

(* Program constants *)

\* mids[-5:]
SHORT_WINDOW == 5
\* mids[-20:]
LONG_WINDOW == 20

----------------------------------------------------------------------------
(* Python values *)

None == <<>>

Some(v) == <<v>>

\* truth value of an optional float: None and 0.0 are falsy
Truthy(x, base) == x # None /\ (base = 1 \/ x[1] # 0)

\* Python `a or b`
Or(a, b, base) == IF Truthy(a, base) THEN a ELSE b

Min(a, b) == IF a < b THEN a ELSE b

Max(a, b) == IF a > b THEN a ELSE b

LastSliceFromFront(xs, k) == SubSeq(xs, 1, Min(k, Len(xs)))

\* xs[-k:]
LastSlice(xs, k) == SubSeq(xs, Max(1, Len(xs) - k + 1), Len(xs))

\* the multiple of step nearest to s/n (s >= 0), ties to the even quotient:
\* round-to-nearest-even of a double whose neighbours are step apart
RoundHalfEven(s, n, step) ==
    LET q  == s \div (n * step)
        lo == q * step
        r2 == 2 * (s - lo * n)
    IN  IF r2 < step * n THEN lo
        ELSE IF r2 > step * n THEN lo + step
        ELSE IF q % 2 = 0 THEN lo ELSE lo + step

\* exact comparison of two numbers [n, d] of one payload
Less(x, y) == x.n * y.d < y.n * x.d

Same(x, y) == x.n * y.d = y.n * x.d

----------------------------------------------------------------------------
(* app/bot.py *)

\* (bid + ask) / 2
MidPrice(bid, ask, base) ==
    IF base = 0 THEN [n |-> bid + ask, d |-> 2]
    ELSE [n |-> RoundHalfEven(bid + ask, 1, 4) \div 2, d |-> 1]

\* candle.get("bid") or candle.get("close", {}).get("bid")
CandleBid(candle, base) == Or(candle.bid, candle.close.bid, base)

CandleAskOrBid(candle, base) ==
    Or(Or(candle.ask, candle.close.ask, base), candle.bid, base)

\* candle.get("ask") or candle.get("close", {}).get("ask")
CandleAsk(candle, base) == Or(candle.ask, candle.close.ask, base)

RECURSIVE MidPrices(_, _)
\* the loop of _extract_mid_prices over the candles
MidPrices(candles, base) ==
    IF candles = <<>> THEN <<>>
    ELSE LET candle == Head(candles)
             bid == CandleBid(candle, base)
             ask == CandleAsk(candle, base)
         IN  (IF bid # None /\ ask # None
              THEN <<MidPrice(bid[1], ask[1], base)>> ELSE <<>>)
             \o MidPrices(Tail(candles), base)

_extract_mid_prices(price_payload) ==
    LET ps == MidPrices(price_payload.prices, price_payload.base)
    IN  IF ps = <<>> THEN [raised |-> "ValueError", value |-> <<>>]
        ELSE [raised |-> "", value |-> ps]

RECURSIVE SumN(_)
SumN(xs) == IF xs = <<>> THEN 0 ELSE Head(xs).n + SumN(Tail(xs))

\* statistics.mean of a non-empty list of floats: the exact mean, rounded once
mean(xs, base) ==
    IF base = 0 THEN [n |-> SumN(xs), d |-> xs[1].d * Len(xs)]
    ELSE [n |-> RoundHalfEven(SumN(xs), Len(xs), 2), d |-> 1]

TradeDecision(direction, size, reason) ==
    [direction |-> direction, size |-> size, reason |-> reason]

NoDecision == TradeDecision("", 0, "")

decide_trade_swapped(price_payload, size) ==
    LET ex == _extract_mid_prices(price_payload)
        short_avg == mean(LastSlice(ex.value, SHORT_WINDOW), price_payload.base)
        long_avg == mean(LastSlice(ex.value, LONG_WINDOW), price_payload.base)
    IN  IF ex.raised # "" THEN [raised |-> ex.raised, value |-> NoDecision]
        ELSE IF Less(short_avg, long_avg)
        THEN [raised |-> "", value |-> TradeDecision("BUY", size, "short_avg > long_avg")]
        ELSE IF Less(long_avg, short_avg)
        THEN [raised |-> "", value |-> TradeDecision("SELL", size, "short_avg < long_avg")]
        ELSE [raised |-> "", value |-> TradeDecision("NONE", 0, "no crossover")]

decide_trade(price_payload, size) ==
    LET ex == _extract_mid_prices(price_payload)
        short_window == LastSlice(ex.value, SHORT_WINDOW)
        long_window == LastSlice(ex.value, LONG_WINDOW)
        short_avg == mean(short_window, price_payload.base)
        long_avg == mean(long_window, price_payload.base)
    IN  IF ex.raised # "" THEN [raised |-> ex.raised, value |-> NoDecision]
        ELSE IF Less(long_avg, short_avg)
        THEN [raised |-> "", value |-> TradeDecision("BUY", size, "short_avg > long_avg")]
        ELSE IF Less(short_avg, long_avg)
        THEN [raised |-> "", value |-> TradeDecision("SELL", size, "short_avg < long_avg")]
        ELSE [raised |-> "", value |-> TradeDecision("NONE", 0, "no crossover")]

\* bot.py line 49: the decision asks for no trade
IsSkipped == decision.direction = "NONE"

IsDryRunBeforeSkip == dry_run

\* bot.py lines 49, 51: a trade is wanted but the run is a dry run
IsDryRun == ~IsSkipped /\ dry_run

ReachesPlaceOrderIgnoringDryRun == ~IsSkipped

\* bot.py lines 49, 51, 58: neither early return was taken
ReachesPlaceOrder == ~IsSkipped /\ ~dry_run

NoResult == [status |-> ""]

----------------------------------------------------------------------------
(* app/capital_client.py *)

CapitalSession(cst, security_token) == [cst |-> cst, security_token |-> security_token]

\* no session object exists
NoSession == CapitalSession(None, None)

NoOrder == [direction |-> "", size |-> 0]

\* one call of requests.post / requests.get as seen on the wire: the operation,
\* the order posted (place_order only), how the transport ended, and the
\* status line, session headers and body of the response if one arrived
Exchange(op, order, transport, status_code, cst, token, body) ==
    [op |-> op, order |-> order, transport |-> transport,
     status_code |-> status_code, cst |-> cst, token |-> token, body |-> body]

\* requests raises ConnectionError when the request cannot be delivered and
\* ReadTimeout when no response arrives within timeout=10
Transports == {"ok", "ConnectionError", "ReadTimeout"}

StatusCodes == {200, 401, 500}

\* response bodies: a JSON document, or text that response.json() cannot decode
Bodies == {"json", "not json"}

HeaderValues == {None, Some(""), Some("token")}

raise_for_status_5xx_only(status_code) == 500 <= status_code /\ status_code < 600

\* response.raise_for_status() raises HTTPError for a 4xx or 5xx status
raise_for_status(status_code) == 400 <= status_code /\ status_code < 600

MissingTokensBoth(cst, security_token) ==
    (cst = None \/ cst[1] = "") /\ (security_token = None \/ security_token[1] = "")

\* capital_client.py line 36: not cst or not security_token
MissingTokens(cst, security_token) ==
    (cst = None \/ cst[1] = "") \/ (security_token = None \/ security_token[1] = "")

\* the exception with which a client method ends on this exchange, "" if none
\* (lines 32-33, 43-45, 65-67: the request, raise_for_status, response.json())
RequestError(x) ==
    IF x.transport # "ok" THEN x.transport
    ELSE IF raise_for_status(x.status_code) THEN "HTTPError"
    ELSE IF x.op # "create_session" /\ x.body # "json" THEN "JSONDecodeError"
    ELSE ""

\* the exchanges in which a response can arrive
Responses(op, order) ==
    { Exchange(op, order, "ok", st, c, t, b) :
        st \in StatusCodes, c \in HeaderValues, t \in HeaderValues, b \in Bodies }

\* every way the venue and the network can answer one request; a response
\* to fetch_prices or place_order carries no session headers
Exchanges(op, order) ==
    { Exchange(op, order, tr, 0, None, None, "") : tr \in Transports \ {"ok"} }
    \cup { x \in Responses(op, order) :
             op = "create_session" \/ (x.cst = None /\ x.token = None) }

\* how often a client method was called
Calls(op) == Cardinality({i \in DOMAIN wire : wire[i].op = op})

\* the place-order requests that reached the venue
OrdersSent == {i \in DOMAIN wire : wire[i].op = "place_order"
                                   /\ wire[i].transport # "ConnectionError"}

----------------------------------------------------------------------------
(* Inputs *)

\* args.size: argparse takes any float
Sizes == {-1, 0, 2}

Candle(bid, ask, cbid, cask) ==
    [bid |-> bid, ask |-> ask, close |-> [bid |-> cbid, ask |-> cask]]

\* {"bid": q, "ask": q}
Flat(q) == Candle(Some(q), Some(q), None, None)

RECURSIVE Rep(_, _)
Rep(c, k) == IF k = 0 THEN <<>> ELSE <<c>> \o Rep(c, k - 1)

Payload(base, candles) == [base |-> base, prices |-> candles]

NoPayload == Payload(0, <<>>)

Quotes == {0, 1}

OptQuotes == {None} \cup {Some(q) : q \in Quotes}

AllCandles == {Candle(b, a, cb, ca) : b \in OptQuotes, a \in OptQuotes,
                                      cb \in OptQuotes, ca \in OptQuotes}

\* payloads for _extract_mid_prices: every list of n candles of every shape
ExtractPayloads(n) == {Payload(0, cs) : cs \in [1..n -> AllCandles]}

RECURSIVE Ascending(_)
\* the members of a set of integers in increasing order
Ascending(S) ==
    IF S = {} THEN <<>>
    ELSE LET m == CHOOSE x \in S : \A y \in S : x <= y
         IN  <<m>> \o Ascending(S \ {m})

Reverse(xs) == [i \in 1..Len(xs) |-> xs[Len(xs) + 1 - i]]

FlatCandles(qs) == [i \in 1..Len(qs) |-> Flat(qs[i])]

\* payloads of three runs of flat candles, oldest first
BlockPayloads ==
    {Payload(0, Rep(Flat(a), i) \o Rep(Flat(b), j) \o Rep(Flat(c), k)) :
        a \in 1..3, b \in 1..3, c \in 1..3,
        i \in 0..MaxRun, j \in 0..MaxRun, k \in 0..MaxRun}

\* strictly rising and strictly falling payloads at both magnitudes
MonotonePayloads ==
    UNION { LET up == Ascending(L)
            IN  {Payload(0, FlatCandles(up)), Payload(0, FlatCandles(Reverse(up))),
                 Payload(1, FlatCandles([i \in 1..Len(up) |-> 2 * up[i]])),
                 Payload(1, FlatCandles(Reverse([i \in 1..Len(up) |-> 2 * up[i]])))}
            : L \in SUBSET (1..MaxLevel) }

\* constant payloads at the large magnitude
LargeConstantPayloads ==
    {Payload(1, Rep(Flat(2 * a), i)) : a \in 1..MaxLevel, i \in 0..MaxRun}

DecidePayloads == BlockPayloads \cup MonotonePayloads \cup LargeConstantPayloads

\* candle shapes the venue answers with in a run of the whole program
MainCandles == {Flat(1), Flat(2), Flat(0),
                Candle(Some(1), None, None, None),
                Candle(None, Some(2), None, None),
                Candle(None, None, Some(2), Some(2)),
                Candle(Some(1), None, None, Some(3))}

MainPayloads ==
    {Payload(0, Rep(c1, i) \o Rep(c2, j)) :
        c1 \in MainCandles, c2 \in MainCandles, i \in 0..MaxRun, j \in 0..MaxRun}

----------------------------------------------------------------------------
(* app/main.py: main() after parse_args *)

Init ==
    /\ pc = "load_config"
    /\ trade_size \in Sizes
    /\ dry_run \in BOOLEAN
    /\ session = NoSession
    /\ prices = NoPayload
    /\ mids = <<>>
    /\ decision = NoDecision
    /\ result = NoResult
    /\ raised = ""
    /\ wire = <<>>

Fail(exc) == pc' = "failed" /\ raised' = exc

\* config.py load_config: ValueError when a credential is missing; dry_run
\* is CAPITAL_DRY_RUN of the environment
LoadConfig ==
    /\ pc = "load_config"
    /\ \E credentials \in BOOLEAN :
         IF credentials THEN pc' = "create_session" /\ UNCHANGED raised
         ELSE Fail("ValueError")
    /\ UNCHANGED <<trade_size, dry_run, session, prices, mids, decision, result, wire>>

\* CapitalClient.create_session
CreateSession ==
    /\ pc = "create_session"
    /\ \E x \in Exchanges("create_session", NoOrder) :
         /\ wire' = Append(wire, x)
         /\ IF RequestError(x) # "" THEN Fail(RequestError(x)) /\ UNCHANGED session
            ELSE IF MissingTokens(x.cst, x.token)
            THEN Fail("RuntimeError") /\ UNCHANGED session
            ELSE /\ session' = CapitalSession(x.cst, x.token)
                 /\ pc' = "fetch_prices"
                 /\ UNCHANGED raised
    /\ UNCHANGED <<trade_size, dry_run, prices, mids, decision, result>>

\* execute_trade line 47: CapitalClient.fetch_prices
FetchPrices ==
    /\ pc = "fetch_prices"
    /\ \E x \in Exchanges("fetch_prices", NoOrder) :
         /\ wire' = Append(wire, x)
         /\ IF RequestError(x) # "" THEN Fail(RequestError(x)) /\ UNCHANGED prices
            ELSE /\ prices' \in MainPayloads
                 /\ pc' = "decide_trade"
                 /\ UNCHANGED raised
    /\ UNCHANGED <<trade_size, dry_run, session, mids, decision, result>>

\* execute_trade line 48: decide_trade(prices, trade_size)
DecideTrade ==
    /\ pc = "decide_trade"
    /\ mids' = _extract_mid_prices(prices).value
    /\ LET d == decide_trade(prices, trade_size)
       IN  IF d.raised # "" THEN Fail(d.raised) /\ UNCHANGED decision
           ELSE decision' = d.value /\ pc' = "dispatch" /\ UNCHANGED raised
    /\ UNCHANGED <<trade_size, dry_run, session, prices, result, wire>>

\* execute_trade lines 49-50, and main printing the result
Skip ==
    /\ pc = "dispatch"
    /\ IsSkipped
    /\ result' = [status |-> "skipped", reason |-> decision.reason]
    /\ pc' = "done"
    /\ UNCHANGED <<trade_size, dry_run, session, prices, mids, decision, raised, wire>>

\* execute_trade lines 51-57
DryRun ==
    /\ pc = "dispatch"
    /\ IsDryRun
    /\ result' = [status |-> "dry_run", direction |-> decision.direction,
                  size |-> decision.size, reason |-> decision.reason]
    /\ pc' = "done"
    /\ UNCHANGED <<trade_size, dry_run, session, prices, mids, decision, raised, wire>>

\* execute_trade lines 58-64: CapitalClient.place_order
PlaceOrder ==
    /\ pc = "dispatch"
    /\ ReachesPlaceOrder
    /\ \E x \in Exchanges("place_order",
                          [direction |-> decision.direction, size |-> decision.size]) :
         /\ wire' = Append(wire, x)
         /\ IF RequestError(x) # "" THEN Fail(RequestError(x)) /\ UNCHANGED result
            ELSE /\ result' = [status |-> "placed", direction |-> decision.direction,
                               result |-> x.body]
                 /\ pc' = "done"
                 /\ UNCHANGED raised
    /\ UNCHANGED <<trade_size, dry_run, session, prices, mids, decision>>

Next == LoadConfig \/ CreateSession \/ FetchPrices \/ DecideTrade
        \/ Skip \/ DryRun \/ PlaceOrder

Spec == Init /\ [][Next]_vars

----------------------------------------------------------------------------
(* decide_trade on its own *)

InitDecide ==
    /\ pc = "decide_trade"
    /\ trade_size \in Sizes
    /\ prices \in DecidePayloads
    /\ dry_run = TRUE
    /\ session = NoSession
    /\ mids = <<>>
    /\ decision = NoDecision
    /\ result = NoResult
    /\ raised = ""
    /\ wire = <<>>

SpecDecide == InitDecide /\ [][DecideTrade]_vars

(* _extract_mid_prices on its own *)

InitExtract ==
    /\ pc = "extract"
    /\ \E n \in 0..MaxCandles : prices \in ExtractPayloads(n)
    /\ trade_size = 0
    /\ dry_run = TRUE
    /\ session = NoSession
    /\ mids = <<>>
    /\ decision = NoDecision
    /\ result = NoResult
    /\ raised = ""
    /\ wire = <<>>

ExtractMidPrices ==
    /\ pc = "extract"
    /\ LET ex == _extract_mid_prices(prices)
       IN  /\ mids' = ex.value
           /\ raised' = ex.raised
           /\ pc' = IF ex.raised # "" THEN "failed" ELSE "done"
    /\ UNCHANGED <<trade_size, dry_run, session, prices, decision, result, wire>>

SpecExtract == InitExtract /\ [][ExtractMidPrices]_vars

----------------------------------------------------------------------------
(* Vocabulary of the properties *)

Finished == pc \in {"done", "failed"}

\* a response with a 2xx status and a JSON body arrived
Fulfilled(x) == x.transport = "ok" /\ x.status_code \in 200..299 /\ x.body = "json"

Last(xs) == xs[Len(xs)]

\* fetch_prices returned a payload
FetchReturned == \E i \in DOMAIN wire : wire[i].op = "fetch_prices" /\ Fulfilled(wire[i])

\* decide_trade has run on the fetched payload
Decided == pc \in {"dispatch", "done"} \/ (pc = "failed" /\ FetchReturned)

HasBid(candle) == candle.bid # None \/ candle.close.bid # None

HasAsk(candle) == candle.ask # None \/ candle.close.ask # None

\* the quote a candle gives: the direct field if present, else the one under close
Resolved(direct, nested) == IF direct # None THEN direct[1] ELSE nested[1]

RECURSIVE SumOver(_, _, _)
\* xs[lo].n + ... + xs[hi].n
SumOver(xs, lo, hi) == IF lo > hi THEN 0 ELSE xs[lo].n + SumOver(xs, lo + 1, hi)

\* the float mean of the last min(k, len) points of a series
WindowMean(xs, k, base) ==
    LET w == Min(k, Len(xs))
        s == SumOver(xs, Len(xs) - w + 1, Len(xs))
    IN  IF base = 0 THEN [n |-> s, d |-> xs[1].d * w]
        ELSE [n |-> RoundHalfEven(s, w, 2), d |-> 1]

ShortAvg == WindowMean(mids, 5, prices.base)

LongAvg == WindowMean(mids, 20, prices.base)

StrictlyIncreasing(xs) == \A i \in 1..(Len(xs) - 1) : Less(xs[i], xs[i + 1])

StrictlyDecreasing(xs) == \A i \in 1..(Len(xs) - 1) : Less(xs[i + 1], xs[i])

ConstantSeries(xs) == \A i \in 1..Len(xs) : Same(xs[i], xs[1])

DecideReturned == pc = "dispatch"

----------------------------------------------------------------------------
(* Properties *)

\* C1: place_order is called only when the computed decision's direction is
\* not NONE and dry_run is false, and then once; with direction NONE or
\* dry_run true it is never called during the run.
C1_PlaceOrderGated ==
    /\ Calls("place_order") > 0 =>
         /\ decision.direction \in {"BUY", "SELL"}
         /\ ~dry_run
         /\ Calls("place_order") = 1
    /\ (Finished /\ (decision.direction = "NONE" \/ dry_run)) => Calls("place_order") = 0

C1_Witness == pc = "done" /\ Calls("place_order") = 1 /\ result.status = "placed"

C4_OneOutcome ==
    pc = "done" =>
        /\ decision.direction \in {"NONE", "BUY", "SELL"}
        /\ decision.direction = "NONE" =>
             result = [status |-> "skipped", reason |-> decision.reason]
        /\ (decision.direction # "NONE" /\ dry_run) =>
             /\ result = [status |-> "dry_run", direction |-> decision.direction,
                          size |-> trade_size, reason |-> decision.reason]
             /\ Calls("place_order") = 0
        /\ (decision.direction # "NONE" /\ ~dry_run) =>
             /\ result = [status |-> "placed", direction |-> decision.direction,
                          result |-> Last(wire).body]
             /\ Last(wire).op = "place_order"
             /\ Fulfilled(Last(wire))

C4_Witness ==
    /\ pc = "done"
    /\ result.status = "dry_run"
    /\ result.direction = "BUY"
    /\ Calls("place_order") = 0

\* C5 as stated: when every candle has a bid and an ask, directly or under
\* close, whatever their values, the series has the length and order of the
\* candle list and its i-th element is (bid_i + ask_i) / 2.
C5_ExtractKeepsEveryCandle ==
    (/\ Finished
     /\ prices.prices # <<>>
     /\ \A i \in DOMAIN prices.prices :
            HasBid(prices.prices[i]) /\ HasAsk(prices.prices[i])) =>
        /\ raised = ""
        /\ Len(mids) = Len(prices.prices)
        /\ \A i \in DOMAIN mids :
             LET c == prices.prices[i]
             IN  mids[i].n * 2 =
                   (Resolved(c.bid, c.close.bid) + Resolved(c.ask, c.close.ask)) * mids[i].d

\* C6: on a series of length >= 1 decide_trade raises nothing and returns BUY
\* with the trade size when the mean of the last min(5, len) points exceeds
\* the mean of the last min(20, len) points, SELL with the trade size when it
\* is below, NONE with size 0 when the two are equal, each with its reason.
C6_DecisionRule ==
    (pc # "decide_trade" /\ mids # <<>>) =>
        /\ raised = ""
        /\ decision =
             IF Less(LongAvg, ShortAvg)
             THEN TradeDecision("BUY", trade_size, "short_avg > long_avg")
             ELSE IF Less(ShortAvg, LongAvg)
             THEN TradeDecision("SELL", trade_size, "short_avg < long_avg")
             ELSE TradeDecision("NONE", 0, "no crossover")

C6_Witness ==
    /\ DecideReturned
    /\ Len(mids) > 20
    /\ decision.direction = "SELL"
    /\ decision.size = trade_size
    /\ trade_size # 0

\* C7: when the candle list is empty or no candle has both a bid and an ask,
\* the extraction raises ValueError and the run ends in it with no series,
\* no decision, no outcome and no place_order call.
C7_NoPriceDataAborts ==
    (/\ Decided
     /\ \A i \in DOMAIN prices.prices :
            ~(HasBid(prices.prices[i]) /\ HasAsk(prices.prices[i]))) =>
        /\ pc = "failed"
        /\ raised = "ValueError"
        /\ mids = <<>>
        /\ decision = NoDecision
        /\ result = NoResult
        /\ Calls("place_order") = 0

C7_Witness ==
    /\ pc = "failed"
    /\ FetchReturned
    /\ raised = "ValueError"
    /\ Len(prices.prices) >= 2
    /\ \E i \in DOMAIN prices.prices : HasBid(prices.prices[i])

\* a login response arrived without the CST or the X-SECURITY-TOKEN header
LoginLacksToken(x) ==
    x.op = "create_session" /\ x.transport = "ok" /\ (x.cst = None \/ x.token = None)

C9_MonotoneDecides ==
    DecideReturned =>
        /\ (Len(mids) >= 6 /\ StrictlyIncreasing(mids)) => decision.direction = "BUY"
        /\ (Len(mids) >= 6 /\ StrictlyDecreasing(mids)) => decision.direction = "SELL"
        /\ (Len(mids) >= 1 /\ ConstantSeries(mids)) =>
             decision.direction = "NONE" /\ decision.size = 0

\* the two window means are the same double although the series is not constant
RoundedTie == prices.base = 1 /\ Same(ShortAvg, LongAvg)

\* C9 amended: a strictly increasing series of length >= 6 gives BUY, except
\* that it gives NONE when the means of the two windows round to the same
\* double; a strictly decreasing one gives SELL with the same exception; a
\* constant series of any length >= 1 gives NONE with size 0.
C9_MonotoneDecidesUpToRounding ==
    DecideReturned =>
        /\ (Len(mids) >= 6 /\ StrictlyIncreasing(mids)) =>
             decision.direction = IF RoundedTie THEN "NONE" ELSE "BUY"
        /\ (Len(mids) >= 6 /\ StrictlyDecreasing(mids)) =>
             decision.direction = IF RoundedTie THEN "NONE" ELSE "SELL"
        /\ (Len(mids) >= 1 /\ ConstantSeries(mids)) =>
             decision.direction = "NONE" /\ decision.size = 0

C9_Witness ==
    /\ DecideReturned
    /\ Len(mids) >= 6
    /\ StrictlyIncreasing(mids)
    /\ prices.base = 0
    /\ decision.direction = "BUY"

\* C10 as stated: every decision has a direction among BUY, SELL and NONE and
\* a non-negative size, and every order posted by place_order has direction
\* BUY or SELL and a non-negative size.
C10_SizeNonNegative ==
    /\ Decided /\ raised = "" =>
         decision.direction \in {"BUY", "SELL", "NONE"} /\ decision.size >= 0
    /\ \A i \in DOMAIN wire :
         wire[i].op = "place_order" =>
             wire[i].order.direction \in {"BUY", "SELL"} /\ wire[i].order.size >= 0

====
